---- MODULE Spec2Model ----
(***************************************************************************)
(* A model of xobjects/array.py: the shape/stride utilities, the type      *)
(* specialization done by MetaArray, the instance planner _inspect_args,   *)
(* the buffer codec (_to_buffer / _from_buffer), the indexed accessor      *)
(* (__getitem__ / __setitem__) and the C offset emitter _get_c_offset.     *)
(*                                                                         *)
(* Conventions.  Python sequences are 0-based, TLA+ sequences are 1-based: *)
(* At(s, i) reads position i of a Python sequence.  Python None is the     *)
(* value None below.  An index yielded by iter_index is a record           *)
(* [bare, ix]: bare = TRUE is a bare integer (the 1-D case), bare = FALSE  *)
(* is a tuple; ix holds the components either way.  A dimension order is a *)
(* record [kind, perm]: kind "C" or "F" is the string form, kind "perm"    *)
(* is an explicit list/tuple of dimension numbers.                         *)
(***************************************************************************)
EXTENDS Integers, Sequences, FiniteSets, TLC

VARIABLES pc, cls, args, info, enc, buffer, base, inst, res, nsets, shadow, pure, pres

vars == <<pc, cls, args, info, enc, buffer, base, inst, res, nsets, shadow, pure, pres>>

None == -1

(***************************************************************************)
(* Bounds of the model.                                                    *)
(***************************************************************************)
MaxExtent == 3
MaxRank == 3
MaxDyn == 2
MaxSets == 2
BaseOffset == 8

(***************************************************************************)
(* Helpers for Python sequences.                                           *)
(***************************************************************************)
At(s, i) == s[i + 1]

Range0(n) == [i \in 1..n |-> i - 1]

Reversed(s) == [i \in 1..Len(s) |-> s[Len(s) + 1 - i]]

RECURSIVE ProdFrom(_, _)
ProdFrom(s, d) == IF d > Len(s) THEN 1 ELSE s[d] * ProdFrom(s, d + 1)

\* np.prod(shape)
NpProd(s) == ProdFrom(s, 1)

\* list.index(v): the first position holding v (0-based)
IndexOf(s, v) == (CHOOSE i \in 1..Len(s) : s[i] = v /\ \A j \in 1..(i - 1) : s[j] # v) - 1

Bare(k) == [bare |-> TRUE, ix |-> <<k>>]

Tup(s) == [bare |-> FALSE, ix |-> s]

OrderC == [kind |-> "C", perm |-> <<>>]

OrderF == [kind |-> "F", perm |-> <<>>]

OrderP(p) == [kind |-> "perm", perm |-> p]

NoPure == [shape |-> <<>>, order |-> OrderC, itemsize |-> 0]

NoPres == [op |-> "none", strides |-> <<>>, indices |-> <<>>]

(***************************************************************************)
(* Shape/stride utilities (array.py lines 63-129).                         *)
(***************************************************************************)
RECURSIVE StridesLoop(_, _, _)
\* the loop "for sh in <seq>: strides.append(ss); ss *= sh"
StridesLoop(seq, ss, strides) ==
    IF seq = <<>> THEN strides
    ELSE StridesLoop(Tail(seq), ss * Head(seq), Append(strides, ss))

get_f_strides(shape, itemsize) == StridesLoop(shape, itemsize, <<>>)

get_c_strides_forward(shape, itemsize) == StridesLoop(shape, itemsize, <<>>)

get_c_strides(shape, itemsize) == Reversed(StridesLoop(Reversed(shape), itemsize, <<>>))

get_strides(shape, order, itemsize) ==
    LET cshape == [k \in 1..Len(order) |-> At(shape, order[k])]
        cstrides == get_c_strides(cshape, itemsize)
    IN  [k \in 1..Len(order) |-> At(cstrides, IndexOf(order, k - 1))]

\* np.ndindex(*cshape): every tuple below cshape, the last component fastest
ndindex(cshape) ==
    [k \in 1..NpProd(cshape) |->
        [d \in 1..Len(cshape) |-> ((k - 1) \div ProdFrom(cshape, d + 1)) % cshape[d]]]

iter_index_identity(shape, order) ==
    IF Len(shape) = 1
    THEN [k \in 1..shape[1] |-> Bare(k - 1)]
    ELSE LET nd == ndindex([k \in 1..Len(order) |-> At(shape, order[k])])
         IN  [k \in 1..Len(nd) |-> Tup([j \in 1..Len(order) |-> At(nd[k], order[j])])]

iter_index(shape, order) ==
    IF Len(shape) = 1
    THEN [k \in 1..shape[1] |-> Bare(k - 1)]
    ELSE LET aorder == [j \in 1..Len(order) |-> IndexOf(order, j - 1)]
             nd == ndindex([k \in 1..Len(order) |-> At(shape, order[k])])
         IN  [k \in 1..Len(nd) |-> Tup([j \in 1..Len(aorder) |-> At(nd[k], aorder[j])])]

\* iter_index applied to the string "C"/"F" instead of a list: for more than
\* one dimension order.index(0) on a str raises TypeError
iter_index_raises(shape, order) == Len(shape) # 1 /\ order.kind # "perm"

mk_order(order, shape) ==
    IF order.kind = "C" THEN Range0(Len(shape))
    ELSE IF order.kind = "F" THEN Reversed(Range0(Len(shape)))
    ELSE order.perm

RECURSIVE ZipSum(_, _, _)
ZipSum(idx, strides, k) ==
    IF k > Len(idx) \/ k > Len(strides) THEN 0
    ELSE idx[k] * strides[k] + ZipSum(idx, strides, k + 1)

get_offset(idx, strides) == ZipSum(idx, strides, 1)

\* TRUE when bound_check raises IndexError
bound_check(index, shape) ==
    \E k \in 1..Len(index) : k <= Len(shape) /\ (index[k] < 0 \/ index[k] >= shape[k])

(***************************************************************************)
(* Collaborators that live outside array.py (typeutils, scalar, the buffer *)
(* and the element types).  A buffer is a function from byte addresses to  *)
(* bytes.  An element value is the sequence of bytes its type encodes it   *)
(* to: a fixed-size element is a little-endian integer of itemsize bytes,  *)
(* a variable-sized element starts with a byte holding its encoded size.   *)
(***************************************************************************)
SlotSize == 8

_to_slot_size(n) == ((n + SlotSize - 1) \div SlotSize) * SlotSize

\* the 8 bytes of a (small, non-negative) Int64, least significant first
Int64Bytes(v) == [k \in 1..8 |-> IF k <= 3 THEN (v \div (256 ^ (k - 1))) % 256 ELSE 0]

WriteBytes(buf, off, bytes) ==
    [a \in DOMAIN buf |->
        IF a >= off /\ a < off + Len(bytes) THEN bytes[a - off + 1] ELSE buf[a]]

ReadBytes(buf, off, n) == [k \in 1..n |-> IF (off + k - 1) \in DOMAIN buf THEN buf[off + k - 1] ELSE 255]

Int64_from_buffer(buf, off) ==
    LET b == ReadBytes(buf, off, 8) IN b[1] + 256 * b[2] + 65536 * b[3]

RECURSIVE FlattenWords(_)
FlattenWords(words) ==
    IF words = <<>> THEN <<>> ELSE Int64Bytes(Head(words)) \o FlattenWords(Tail(words))

Int64_array_to_buffer(buf, off, words) == WriteBytes(buf, off, FlattenWords(words))

\* get_a_buffer(size, ...): a fresh region of size bytes at the given offset
get_a_buffer(size, offset) == [a \in 0..(offset + size - 1) |-> 0]

\* itemtype._to_buffer(buffer, offset, value, info)
Item_to_buffer(buf, off, value) == WriteBytes(buf, off, value)

\* itemtype._from_buffer(buffer, offset)
Item_from_buffer(buf, off, itemsize) ==
    IF itemsize # None THEN ReadBytes(buf, off, itemsize)
    ELSE ReadBytes(buf, off, IF off \in DOMAIN buf THEN buf[off] ELSE 0)

\* itemtype(): the default value of a fixed-size element type
ItemDefault(itemsize) == [k \in 1..itemsize |-> 0]

\* itemtype._inspect_args(value).size
ItemInspectSize(value) == Len(value)

(***************************************************************************)
(* Values handed to the constructor.  An argument is an integer or an      *)
(* array-like with a shape attribute whose cells are addressed by index    *)
(* tuples (not an np.ndarray paired with a _dtype element type, so that    *)
(* _to_buffer writes element by element).  The cell contents are fixed by  *)
(* a pattern number so that neighbouring cells differ.                     *)
(***************************************************************************)
IntArg(n) == [isint |-> TRUE, n |-> n, shape |-> <<>>, pat |-> 0]

ArrArg(shape, pat) == [isint |-> FALSE, n |-> 0, shape |-> shape, pat |-> pat]

RECURSIVE FlatC(_, _, _)
\* position of cell t in the C-order flattening of an array of this shape
FlatC(t, shape, d) ==
    IF d > Len(shape) THEN 0 ELSE t[d] * ProdFrom(shape, d + 1) + FlatC(t, shape, d + 1)

FixedElem(itemsize, v) == [k \in 1..itemsize |-> IF k = 1 THEN v ELSE 0]

VarElem(size, tag) == [k \in 1..size |-> IF k = 1 THEN size ELSE tag]

\* value[idx] for an idx inside value.shape
Cell(itemsize, value, t) ==
    LET flat == FlatC(t, value.shape, 1)
    IN  IF itemsize # None
        THEN FixedElem(itemsize, 1 + flat + 16 * value.pat)
        ELSE VarElem(IF (flat + value.pat) % 2 = 0 THEN 10 ELSE 14, 1 + flat + 16 * value.pat)

\* value[idx] raises IndexError
CellRaises(value, t) == \E d \in 1..Len(t) : t[d] >= value.shape[d]

get_shape_from_array(value) == IF value.isint THEN <<>> ELSE value.shape

is_integer(value) == value.isint

(***************************************************************************)
(* Type specialization: Array.mk_arrayclass and MetaArray.__new__.         *)
(* A declaration is [itemsize, shape, has_order, order]; a dimension of    *)
(* the shape handed to mk_arrayclass is [isslice, start, stop].            *)
(***************************************************************************)
Dim(d) == [isslice |-> FALSE, start |-> d, stop |-> None]

Slice(start, stop) == [isslice |-> TRUE, start |-> start, stop |-> stop]

mk_arrayclass(itemsize, shape) ==
    [itemsize |-> itemsize,
     shape |-> [k \in 1..Len(shape) |-> shape[k].start],
     has_order |-> TRUE,
     order |-> OrderP([k \in 1..Len(shape) |->
                  IF shape[k].isslice /\ shape[k].stop # None THEN shape[k].stop ELSE k - 1])]

Declare(itemsize, shape, order) ==
    [itemsize |-> itemsize, shape |-> shape, has_order |-> TRUE, order |-> order]

DeclareNoOrder(itemsize, shape) ==
    [itemsize |-> itemsize, shape |-> shape, has_order |-> FALSE, order |-> OrderC]

RECURSIVE DynamicDims(_, _)
\* the positions (0-based) of the None entries of a shape, from position d on
DynamicDims(shape, d) ==
    IF d > Len(shape) THEN <<>>
    ELSE (IF shape[d] = None THEN <<d - 1>> ELSE <<>>) \o DynamicDims(shape, d + 1)

StaticItemSize(itemsize) == IF itemsize = None THEN 8 ELSE itemsize

StridesFieldBytes_1d(shape) == 8 * Len(shape)

\* space for strides: line 157-158
StridesFieldBytes(shape) == IF Len(shape) > 1 THEN 8 * Len(shape) ELSE 0

\* space for the dynamic size: lines 168-175
SizeFieldBytes(is_static_shape, is_static_type) ==
    IF is_static_shape /\ is_static_type THEN 0 ELSE 8

MetaArray(data) ==
    LET is_static_type == data.itemsize # None
        static_size == StaticItemSize(data.itemsize)
        order0 == IF data.has_order THEN data.order ELSE OrderC
        dshape == DynamicDims(data.shape, 1)
        is_static_shape == Len(dshape) = 0
        order == IF is_static_shape THEN OrderP(mk_order(order0, data.shape)) ELSE order0
        has_strides == is_static_shape \/ Len(data.shape) <= 1
        strides == IF is_static_shape THEN get_strides(data.shape, order.perm, static_size)
                   ELSE IF Len(data.shape) <= 1 THEN <<static_size>>
                   ELSE <<>>
        size == IF is_static_shape /\ is_static_type
                THEN _to_slot_size(data.itemsize * NpProd(data.shape))
                ELSE None
        data_offset ==
            (IF is_static_shape THEN 0 ELSE Len(dshape) * 8 + StridesFieldBytes(data.shape))
            + SizeFieldBytes(is_static_shape, is_static_type)
    IN  [itemsize |-> data.itemsize,
         is_static_type |-> is_static_type,
         shape |-> data.shape,
         order |-> order,
         is_static_shape |-> is_static_shape,
         dshape_idx |-> dshape,
         has_strides |-> has_strides,
         strides |-> strides,
         size |-> size,
         data_offset |-> data_offset]

(***************************************************************************)
(* The instance planner, Array._inspect_args.  The result is the Info      *)
(* record plus err ("" when the call returns) and hdr, the value of the    *)
(* local variable offset once the header space has been reserved.          *)
(***************************************************************************)
NoValue == ArrArg(<<>>, 0)

EmptyTable == [t \in {} |-> 0]

NoInfo ==
    [err |-> "none", hasvalue |-> FALSE, value |-> NoValue, shape |-> <<>>, order |-> <<>>,
     strides |-> <<>>, offsets |-> EmptyTable, extra |-> EmptyTable, size |-> None,
     dshape |-> <<>>, hdr |-> 0]

PlanError(e) == [NoInfo EXCEPT !.err = e]

RECURSIVE SumTo(_, _)
SumTo(sizes, k) == IF k = 0 THEN 0 ELSE sizes[k] + SumTo(sizes, k - 1)

\* the table filled by "offsets[idx] = offset; offset += size" over idxs
OffsetsTable(idxs, start, sizes) ==
    [t \in {idxs[k].ix : k \in 1..Len(idxs)} |->
        LET k == CHOOSE k \in 1..Len(idxs) :
                    idxs[k].ix = t /\ \A l \in (k + 1)..Len(idxs) : idxs[l].ix # t
        IN  start + SumTo(sizes, k - 1)]

\* np.empty(shape) raises ValueError for a negative dimension
NpEmptyRaises(shape) == \E d \in 1..Len(shape) : shape[d] < 0

\* shape resolved from explicit dimensions: lines 280-288
ShapeFromDims(c, a) ==
    [d \in 1..Len(c.shape) |->
        IF c.shape[d] = None THEN a[Len(DynamicDims(SubSeq(c.shape, 1, d), 1))].n
        ELSE c.shape[d]]

\* dshape as line 286 builds it: len(shape) after the append
DshapeFromDims(c) ==
    LET dd == DynamicDims(c.shape, 1) IN [k \in 1..Len(dd) |-> dd[k] + 1]

TableBytes_none(items) == 0

\* space for the offsets table: line 312
TableBytes(items) == items * 8

\* the header space reserved at lines 257 and 292-294
HeaderBytes(nd, shape) == 8 + nd * 8 + (IF Len(shape) > 1 THEN Len(shape) * 8 ELSE 0)

\* lines 235-249: the (static, static) case
PlanStatic(c, a) ==
    IF Len(a) > 1 THEN PlanError("ValueError")
    ELSE IF Len(a) = 1 /\ get_shape_from_array(a[1]) # c.shape THEN PlanError("ValueError")
    ELSE [NoInfo EXCEPT !.err = "", !.hasvalue = Len(a) = 1,
                        !.value = IF Len(a) = 1 THEN a[1] ELSE NoValue,
                        !.shape = c.shape, !.order = c.order.perm, !.strides = c.strides,
                        !.hdr = 0]

\* lines 257-300: shape, order, strides and header space of the other cases
PlanDynamic(c, a) ==
    IF Len(a) = 0 THEN PlanError("IndexError")
    ELSE IF c.is_static_shape
    THEN [NoInfo EXCEPT !.err = "", !.hasvalue = TRUE, !.value = a[1],
                        !.shape = c.shape, !.order = c.order.perm, !.strides = c.strides,
                        !.hdr = 8]
    ELSE IF ~is_integer(a[1])
    THEN IF \E d \in 1..Len(c.shape) : c.shape[d] # None
         THEN PlanError("NameError")
         ELSE LET shape == get_shape_from_array(a[1])
                  order == mk_order(c.order, shape)
              IN  [NoInfo EXCEPT !.err = "", !.hasvalue = TRUE, !.value = a[1],
                        !.shape = shape, !.order = order,
                        !.strides = get_strides(shape, order, StaticItemSize(c.itemsize)),
                        !.dshape = DynamicDims(c.shape, 1),
                        !.hdr = HeaderBytes(Len(c.dshape_idx), shape)]
    ELSE IF Len(a) < Len(c.dshape_idx) THEN PlanError("IndexError")
    ELSE LET shape == ShapeFromDims(c, a)
             order == mk_order(c.order, shape)
         IN  [NoInfo EXCEPT !.err = "", !.hasvalue = FALSE,
                        !.shape = shape, !.order = order,
                        !.strides = get_strides(shape, order, StaticItemSize(c.itemsize)),
                        !.dshape = DshapeFromDims(c),
                        !.hdr = HeaderBytes(Len(c.dshape_idx), shape)]

\* lines 250-255 and 303-308: the table of a fixed-size element type
PlanFixedItems(c, p) ==
    IF NpEmptyRaises(p.shape) THEN PlanError("ValueError")
    ELSE LET idxs == iter_index(p.shape, p.order)
             sizes == [k \in 1..Len(idxs) |-> c.itemsize]
             last == p.hdr + SumTo(sizes, Len(idxs))
         IN  IF c.size # None /\ c.size # _to_slot_size(last) THEN PlanError("AssertionError")
             ELSE [p EXCEPT !.offsets = OffsetsTable(idxs, p.hdr, sizes),
                            !.size = IF c.size # None THEN c.size ELSE _to_slot_size(last)]

\* lines 309-317: the table of a variable-sized element type
PlanVariableItems(c, p) ==
    IF NpEmptyRaises(p.shape) THEN PlanError("ValueError")
    ELSE LET idxs == iter_index(p.shape, p.order)
             start == p.hdr + TableBytes(NpProd(p.shape))
         IN  IF Len(idxs) > 0 /\ (~p.hasvalue \/ p.value.isint) THEN PlanError("TypeError")
             ELSE IF \E k \in 1..Len(idxs) : CellRaises(p.value, idxs[k].ix)
             THEN PlanError("IndexError")
             ELSE LET sizes == [k \in 1..Len(idxs) |->
                                   ItemInspectSize(Cell(c.itemsize, p.value, idxs[k].ix))]
                  IN  [p EXCEPT !.offsets = OffsetsTable(idxs, start, sizes),
                                !.extra = [t \in {idxs[k].ix : k \in 1..Len(idxs)} |->
                                             ItemInspectSize(Cell(c.itemsize, p.value, t))],
                                !.size = _to_slot_size(start + SumTo(sizes, Len(idxs)))]

_inspect_args(c, a) ==
    LET p == IF c.size # None THEN PlanStatic(c, a) ELSE PlanDynamic(c, a)
    IN  IF p.err # "" THEN p
        ELSE IF c.is_static_type THEN PlanFixedItems(c, p)
        ELSE PlanVariableItems(c, p)

(***************************************************************************)
(* The buffer codec: Array._to_buffer and Array._from_buffer.              *)
(***************************************************************************)
\* lines 370-379: the header words
HeaderWords(c, p) ==
    (IF c.size = None THEN <<p.size>> ELSE <<>>)
    \o (IF ~c.is_static_shape
        THEN [k \in 1..Len(c.dshape_idx) |-> At(p.shape, c.dshape_idx[k])]
             \o (IF Len(c.shape) > 1 THEN p.strides ELSE <<>>)
        ELSE <<>>)

\* an np.ndarray of offsets handed to Int64._array_to_buffer: its cells in C order
TableWords(p) ==
    LET cells == ndindex(p.shape) IN [k \in 1..Len(cells) |-> p.offsets[cells[k]]]

\* the address an element is written at: lines 399 and 409
ItemAt(offset, p, t) == offset + p.offsets[t]

RECURSIVE WriteItems(_, _, _, _, _, _)
\* the loops at lines 396-402 and 406-412, from the k-th index on
WriteItems(c, buf, offset, p, idxs, k) ==
    IF k > Len(idxs) THEN buf
    ELSE LET t == idxs[k].ix
             v == IF p.hasvalue THEN Cell(c.itemsize, p.value, t) ELSE ItemDefault(c.itemsize)
         IN  WriteItems(c, Item_to_buffer(buf, ItemAt(offset, p, t), v), offset, p, idxs, k + 1)

NoEnc == [err |-> "none", header |-> <<>>, table_at |-> None, written |-> {}]

\* _to_buffer with the plan p; the result holds the buffer, the header list,
\* the address the offsets table went to and the cells written
_to_buffer(c, buf, offset, p) ==
    LET header == HeaderWords(c, p)
        buf1 == IF Len(header) > 0 THEN Int64_array_to_buffer(buf, offset, header) ELSE buf
        coffset == offset + (IF Len(header) > 0 THEN 8 * Len(header) ELSE 0)
        buf2 == IF ~c.is_static_type THEN Int64_array_to_buffer(buf1, coffset, TableWords(p))
                ELSE buf1
        table_at == IF ~c.is_static_type THEN coffset ELSE None
    IN  IF iter_index_raises(p.shape, c.order)
        THEN [err |-> "TypeError", buf |-> buf2, header |-> header, table_at |-> table_at,
              written |-> {}]
        ELSE LET idxs == iter_index(p.shape, c.order.perm)
             IN  [err |-> "", buf |-> WriteItems(c, buf2, offset, p, idxs, 1),
                  header |-> header, table_at |-> table_at,
                  written |-> {idxs[k].ix : k \in 1..Len(idxs)}]

NoInst ==
    [offset |-> 0, has_size |-> FALSE, size |-> None, own_shape |-> FALSE, shape |-> <<>>,
     strides |-> <<>>, has_offsets |-> FALSE, offsets |-> EmptyTable, attached |-> FALSE]

\* lines 425-432: the attributes __init__ sets on the instance
InstOfInfo(c, offset, p) ==
    [offset |-> offset,
     has_size |-> c.size = None, size |-> IF c.size = None THEN p.size ELSE None,
     own_shape |-> ~c.is_static_shape,
     shape |-> IF ~c.is_static_shape THEN p.shape ELSE <<>>,
     strides |-> IF ~c.is_static_shape THEN p.strides ELSE <<>>,
     has_offsets |-> ~c.is_static_type,
     offsets |-> IF ~c.is_static_type THEN p.offsets ELSE EmptyTable,
     attached |-> FALSE]

\* attribute lookup self._shape / self._strides: the instance's, else the class's
InstShape(c, i) == IF i.own_shape THEN i.shape ELSE c.shape

InstStrides(c, i) == IF i.own_shape THEN i.strides ELSE c.strides

RECURSIVE ReadShape(_, _, _, _)
\* lines 338-344: the extents, the dynamic ones read from consecutive words
ReadShape(c, buf, coffset, d) ==
    IF d > Len(c.shape) THEN <<>>
    ELSE IF c.shape[d] = None
    THEN <<Int64_from_buffer(buf, coffset)>> \o ReadShape(c, buf, coffset + 8, d + 1)
    ELSE <<c.shape[d]>> \o ReadShape(c, buf, coffset, d + 1)

_from_buffer(c, buf, offset) ==
    LET has_size == c.size = None
        size == IF has_size THEN Int64_from_buffer(buf, offset) ELSE None
        coffset == IF has_size THEN offset + 8 ELSE offset
        shape == IF ~c.is_static_shape THEN ReadShape(c, buf, coffset, 1) ELSE c.shape
        self == [NoInst EXCEPT !.offset = offset, !.has_size = has_size, !.size = size,
                               !.attached = TRUE]
    IN  IF ~c.is_static_shape /\ Len(shape) > 1
        THEN [err |-> "TypeError", inst |-> self]      \* range(shape) on a list
        ELSE IF ~c.is_static_type
        THEN [err |-> "NameError", inst |-> self]      \* prod is not defined
        ELSE IF ~c.is_static_shape
        THEN [err |-> "",
              inst |-> [self EXCEPT !.own_shape = TRUE, !.shape = shape,
                                    !.strides = <<c.itemsize>>]]
        ELSE [err |-> "", inst |-> self]

(***************************************************************************)
(* The indexed accessor: Array.__getitem__ and Array.__setitem__, for an   *)
(* element type without an _update method.  index is the tuple the method  *)
(* works with once a bare integer has been wrapped (lines 453-454).        *)
(***************************************************************************)
\* offsets[index] on an np.ndarray: IndexError outside [-extent, extent)
NpIndexRaises(index, shape) ==
    \E d \in 1..Len(index) : index[d] < 0 - shape[d] \/ index[d] >= shape[d]

\* the cell offsets[index] reads: a negative component counts from the end
NpCell(index, shape) ==
    [d \in 1..Len(index) |-> IF index[d] < 0 THEN index[d] + shape[d] ELSE index[d]]

ItemAddress_nobase(c, i, index) ==
    IF i.has_offsets
    THEN IF NpIndexRaises(index, InstShape(c, i)) THEN [err |-> "IndexError", at |-> 0]
         ELSE [err |-> "", at |-> i.offsets[NpCell(index, InstShape(c, i))]]
    ELSE IF bound_check(index, InstShape(c, i)) THEN [err |-> "IndexError", at |-> 0]
         ELSE [err |-> "", at |-> c.data_offset + get_offset(index, InstStrides(c, i))]

\* lines 456-464 (and again 474-482): the address of the element
ItemAddress(c, i, index) ==
    IF i.has_offsets
    THEN IF NpIndexRaises(index, InstShape(c, i)) THEN [err |-> "IndexError", at |-> 0]
         ELSE [err |-> "", at |-> i.offset + i.offsets[NpCell(index, InstShape(c, i))]]
    ELSE IF bound_check(index, InstShape(c, i)) THEN [err |-> "IndexError", at |-> 0]
         ELSE [err |-> "",
               at |-> i.offset + c.data_offset + get_offset(index, InstStrides(c, i))]

__getitem__(c, i, buf, index) ==
    LET a == ItemAddress(c, i, index)
    IN  IF a.err # "" THEN [err |-> a.err, val |-> <<>>]
        ELSE [err |-> "", val |-> Item_from_buffer(buf, a.at, c.itemsize)]

__setitem__(c, i, buf, index, value) ==
    LET a == ItemAddress(c, i, index)
    IN  IF a.err # "" THEN [err |-> a.err, buf |-> buf]
        ELSE [err |-> "", buf |-> Item_to_buffer(buf, a.at, value)]

(***************************************************************************)
(* The C offset emitter, Array._get_c_offset.  The emitted text is kept as *)
(* its parts.  Per dimension there is the operand that multiplies the      *)
(* index in the final line: for a type with class strides it is the        *)
(* constant stride (load FALSE, typed FALSE); otherwise a declaration of   *)
(* "itype Cls_sK", initialised with the itype read at obj+offset+v, is     *)
(* emitted first (load TRUE, v the byte position read, which is 8 + nd*8   *)
(* for every K) and the operand is sname, the text "itype Cls_sK" with the *)
(* type in it (typed TRUE).  data_offset is the constant added in front    *)
(* and deref tells whether the final line dereferences.                    *)
(***************************************************************************)
_get_c_offset(c) ==
    LET nd == Len(c.shape)
        stride_offset == 8 + nd * 8
    IN  [strides |-> IF c.has_strides
                     THEN [k \in 1..Len(c.strides) |->
                              [load |-> FALSE, typed |-> FALSE, v |-> c.strides[k]]]
                     ELSE [k \in 1..nd |->
                              [load |-> TRUE, typed |-> TRUE, v |-> stride_offset]],
         data_offset |-> c.data_offset,
         deref |-> ~c.is_static_type]

(***************************************************************************)
(* The emitted text, compiled and run with obj the buffer, offset the      *)
(* instance base and i0, i1, ... the index.  An operand that carries a     *)
(* type name is not a C expression, so the text does not compile and there *)
(* is no offset (err "CompileError"); otherwise at is the value of offset  *)
(* after the final line.                                                   *)
(***************************************************************************)
EvalC(frag, buf, offset, index) ==
    LET strides == [k \in 1..Len(frag.strides) |->
                       IF frag.strides[k].load
                       THEN Int64_from_buffer(buf, offset + frag.strides[k].v)
                       ELSE frag.strides[k].v]
        soffset == (IF frag.data_offset > 0 THEN frag.data_offset ELSE 0)
                   + get_offset(index, strides)
    IN  IF \E k \in 1..Len(frag.strides) : frag.strides[k].typed
        THEN [err |-> "CompileError", at |-> None]
        ELSE [err |-> "",
              at |-> IF frag.deref
                     THEN offset + Int64_from_buffer(buf, offset + soffset)
                     ELSE offset + soffset]

(***************************************************************************)
(* The program as a state machine: a specialized type cls and constructor  *)
(* arguments args are given; Construct is Array.__init__, ToBuffer is the  *)
(* classmethod _to_buffer called without a plan, FromBuffer is             *)
(* _from_buffer on the encoded region, GetItem / SetItem are the accessor  *)
(* and EmitC evaluates the fragments of _get_c_offset.                     *)
(* info, enc and res record what the last planner call, encoder call and   *)
(* accessor call returned; shadow records, per cell, the element the       *)
(* instance was built with or that was last set there.                     *)
(***************************************************************************)
NoClass == MetaArray(DeclareNoOrder(8, <<0>>))

NoRes == [op |-> "none", index |-> <<>>, err |-> "", val |-> <<>>, at |-> 0]

NoShadow == [cells |-> EmptyTable, header |-> <<>>, inbounds |-> TRUE]

Cells(shape) == {t \in [1..Len(shape) -> 0..MaxExtent] : \A d \in 1..Len(shape) : t[d] < shape[d]}

\* the bytes in front of the first element payload
HeaderSpan(c, p) == p.hdr + (IF c.is_static_type THEN 0 ELSE TableBytes(NpProd(p.shape)))

ShadowOf(c, p, buf, offset) ==
    [cells |-> [t \in Cells(p.shape) |->
                   IF p.hasvalue THEN Cell(c.itemsize, p.value, t) ELSE ItemDefault(c.itemsize)],
     header |-> ReadBytes(buf, offset, HeaderSpan(c, p)),
     inbounds |-> TRUE]

EncOf(e) == [err |-> e.err, header |-> e.header, table_at |-> e.table_at, written |-> e.written]

\* Array.__init__ (lines 414-432)
Construct ==
    /\ pc = "new"
    /\ LET p == _inspect_args(cls, args)
       IN  /\ info' = p
           /\ IF p.err # ""
              THEN /\ pc' = "plan_error"
                   /\ UNCHANGED <<enc, buffer, inst, shadow>>
              ELSE LET e == _to_buffer(cls, get_a_buffer(p.size, base), base, p)
                   IN  /\ enc' = EncOf(e)
                       /\ buffer' = e.buf
                       /\ IF e.err # ""
                          THEN pc' = "encode_error" /\ UNCHANGED <<inst, shadow>>
                          ELSE /\ pc' = "bound"
                               /\ inst' = InstOfInfo(cls, base, p)
                               /\ shadow' = ShadowOf(cls, p, e.buf, base)
    /\ UNCHANGED <<cls, args, base, res, nsets, pure, pres>>

\* Array._to_buffer(buffer, offset, value) with info=None (lines 366-412),
\* on a caller's zeroed buffer large enough for the plan
ToBuffer ==
    /\ pc = "new"
    /\ Len(args) = 1
    /\ LET p == _inspect_args(cls, <<args[1]>>)
       IN  /\ info' = p
           /\ IF p.err # ""
              THEN /\ pc' = "plan_error"
                   /\ UNCHANGED <<enc, buffer, shadow>>
              ELSE LET e == _to_buffer(cls, get_a_buffer(p.size, base), base, p)
                   IN  /\ enc' = EncOf(e)
                       /\ buffer' = e.buf
                       /\ IF e.err # ""
                          THEN pc' = "encode_error" /\ UNCHANGED shadow
                          ELSE /\ pc' = "encoded"
                               /\ shadow' = ShadowOf(cls, p, e.buf, base)
    /\ UNCHANGED <<cls, args, base, inst, res, nsets, pure, pres>>

\* Array._from_buffer(buffer, offset) (lines 329-363) on the encoded region
FromBuffer ==
    /\ pc \in {"bound", "encoded"}
    /\ LET r == _from_buffer(cls, buffer, base)
       IN  /\ inst' = r.inst
           /\ pc' = IF r.err = "" THEN "attached" ELSE "attach_error"
           /\ res' = [NoRes EXCEPT !.op = "attach", !.err = r.err]
    /\ UNCHANGED <<cls, args, info, enc, buffer, base, nsets, shadow, pure, pres>>

IndexInputs(shape) ==
    {t \in [1..Len(shape) -> (0 - MaxExtent - 1)..MaxExtent] :
        \A d \in 1..Len(shape) : t[d] \in {0 - shape[d] - 1, -1} \cup 0..shape[d]}

InBounds(index, shape) == \A d \in 1..Len(shape) : index[d] >= 0 /\ index[d] < shape[d]

\* Array.__getitem__ (lines 452-465)
GetItem ==
    /\ pc \in {"bound", "attached"}
    /\ \E index \in IndexInputs(info.shape) :
          LET a == ItemAddress(cls, inst, index)
              r == __getitem__(cls, inst, buffer, index)
          IN  res' = [op |-> "get", index |-> index, err |-> r.err, val |-> r.val, at |-> a.at]
    /\ UNCHANGED <<pc, cls, args, info, enc, buffer, base, inst, nsets, shadow, pure, pres>>

SetTags == {201, 202}

\* Array.__setitem__ (lines 467-483) with a value of the slot's encoded size
SetItem ==
    /\ pc \in {"bound", "attached"}
    /\ nsets < MaxSets
    /\ \E index \in IndexInputs(info.shape) : \E tag \in SetTags :
          LET a == ItemAddress(cls, inst, index)
              cur == IF a.err = "" THEN Item_from_buffer(buffer, a.at, cls.itemsize) ELSE <<>>
              value == IF cls.is_static_type THEN FixedElem(cls.itemsize, tag)
                       ELSE VarElem(Len(cur), tag)
              r == __setitem__(cls, inst, buffer, index, value)
          IN  /\ buffer' = r.buf
              /\ res' = [op |-> "set", index |-> index, err |-> r.err, val |-> value, at |-> a.at]
              /\ shadow' = IF r.err # "" THEN shadow
                           ELSE [shadow EXCEPT
                                   !.cells[NpCell(index, info.shape)] = value,
                                   !.inbounds = shadow.inbounds /\ InBounds(index, info.shape)]
    /\ nsets' = nsets + 1
    /\ UNCHANGED <<pc, cls, args, info, enc, base, inst, pure, pres>>

\* the text emitted by Array._get_c_offset (lines 500-526), compiled and run
\* for one index
EmitC ==
    /\ pc \in {"bound", "encoded"}
    /\ res.op = "none"
    /\ \E index \in Cells(info.shape) :
          LET r == EvalC(_get_c_offset(cls), buffer, base, index)
          IN  res' = [op |-> "c_offset", index |-> index, err |-> r.err,
                      val |-> <<>>, at |-> r.at]
    /\ UNCHANGED <<pc, cls, args, info, enc, buffer, base, inst, nsets, shadow, pure, pres>>

(***************************************************************************)
(* The declared types and the constructor arguments tried.                 *)
(***************************************************************************)
ElementSizes == {4, 8, None}

DirectShapes == {<<2>>, <<None>>, <<2, 3>>, <<None, None>>, <<None, 3>>, <<3, None>>}

SliceShapes ==
    {<<Dim(3)>>, <<Dim(None)>>, <<Dim(2), Dim(3)>>, <<Slice(2, 1), Slice(3, 0)>>,
     <<Dim(None), Dim(3)>>, <<Dim(2), Dim(None)>>, <<Dim(None), Dim(None)>>,
     <<Slice(None, 1), Slice(None, 0)>>,
     <<Slice(2, 1), Slice(1, 2), Slice(2, 0)>>,
     <<Slice(None, 2), Slice(2, 0), Slice(None, 1)>>}

Decls ==
    {DeclareNoOrder(sz, sh) : sz \in ElementSizes, sh \in DirectShapes}
    \cup {Declare(sz, sh, o) : sz \in ElementSizes, sh \in DirectShapes \ {<<2>>, <<None>>},
                               o \in {OrderC, OrderF}}
    \cup {mk_arrayclass(sz, sh) : sz \in ElementSizes, sh \in SliceShapes}

\* shapes of the array-likes tried: any extent up to MaxDyn, or the declared one
ValueShapes(c) ==
    {sh \in [1..Len(c.shape) -> 1..MaxExtent] :
        \A d \in 1..Len(c.shape) : sh[d] <= MaxDyn \/ sh[d] = c.shape[d]}

DimArgs(n) == [1..n -> {IntArg(k) : k \in -1..MaxDyn}]

ArgsOf(c) ==
    {<<>>}
    \cup {<<ArrArg(sh, pat)>> : sh \in ValueShapes(c), pat \in {0, 1}}
    \cup {<<ArrArg(sh, 0), IntArg(1)>> : sh \in ValueShapes(c)}
    \cup UNION {DimArgs(n) : n \in 1..(Len(c.dshape_idx) + 1)}

Init ==
    /\ pc = "new"
    /\ cls \in {MetaArray(d) : d \in Decls}
    /\ args \in ArgsOf(cls)
    /\ base = BaseOffset
    /\ info = NoInfo /\ enc = NoEnc /\ buffer = <<>>
    /\ inst = NoInst /\ res = NoRes /\ nsets = 0 /\ shadow = NoShadow
    /\ pure = NoPure /\ pres = NoPres

Next == Construct \/ ToBuffer \/ FromBuffer \/ EmitC

Spec == Init /\ [][Next]_vars

\* the accessor on a few instances of every layout case
AccessDecls ==
    {DeclareNoOrder(sz, sh) : sz \in {4, None}, sh \in {<<3>>, <<None>>}}
    \cup {mk_arrayclass(sz, sh) : sz \in {4, None},
              sh \in {<<Slice(2, 1), Slice(2, 0)>>, <<Slice(None, 1), Slice(None, 0)>>}}

AccessArgs(c) ==
    {<<ArrArg([d \in 1..Len(c.shape) |-> IF c.shape[d] = None THEN 2 ELSE c.shape[d]], 0)>>}
    \cup (IF c.is_static_type /\ ~c.is_static_shape
          THEN {[k \in 1..Len(c.dshape_idx) |-> IntArg(n)] : n \in 0..1}
          ELSE {})
    \cup (IF c.size # None THEN {<<>>} ELSE {})

InitAccess ==
    /\ pc = "new"
    /\ cls \in {MetaArray(d) : d \in AccessDecls}
    /\ args \in AccessArgs(cls)
    /\ base = BaseOffset
    /\ info = NoInfo /\ enc = NoEnc /\ buffer = <<>>
    /\ inst = NoInst /\ res = NoRes /\ nsets = 0 /\ shadow = NoShadow
    /\ pure = NoPure /\ pres = NoPres

NextAccess == Construct \/ FromBuffer \/ GetItem \/ SetItem

SpecAccess == InitAccess /\ [][NextAccess]_vars

(***************************************************************************)
(* The utilities on their own: inputs drawn from bounded sets.             *)
(***************************************************************************)
Perms(n) == {p \in [1..n -> 0..(n - 1)] : \A i, j \in 1..n : p[i] = p[j] => i = j}

Shapes(n, lo) == [1..n -> lo..MaxExtent]

Orders(n) == {OrderC, OrderF} \cup {OrderP(p) : p \in Perms(n)}

ItemSizes == {1, 4, 8}

InitPure ==
    /\ pc = "pure"
    /\ \E n \in 1..MaxRank : \E sh \in Shapes(n, 0) : \E o \in Orders(n) : \E sz \in ItemSizes :
          pure = [shape |-> sh, order |-> o, itemsize |-> sz]
    /\ pres = NoPres
    /\ cls = NoClass /\ args = <<>> /\ info = NoInfo /\ enc = NoEnc
    /\ buffer = <<>> /\ base = 0
    /\ inst = NoInst /\ res = NoRes /\ nsets = 0 /\ shadow = NoShadow

CallGetStrides ==
    /\ pc = "pure"
    /\ pres.op = "none"
    /\ pres' = [op |-> "get_strides",
                strides |-> get_strides(pure.shape, mk_order(pure.order, pure.shape), pure.itemsize),
                indices |-> <<>>]
    /\ UNCHANGED <<pc, cls, args, info, enc, buffer, base, inst, res, nsets, shadow, pure>>

CallIterIndex ==
    /\ pc = "pure"
    /\ pres.op = "none"
    /\ pres' = [op |-> "iter_index",
                strides |-> <<>>,
                indices |-> iter_index(pure.shape, mk_order(pure.order, pure.shape))]
    /\ UNCHANGED <<pc, cls, args, info, enc, buffer, base, inst, res, nsets, shadow, pure>>

NextPure == CallGetStrides \/ CallIterIndex

SpecPure == InitPure /\ [][NextPure]_vars

(***************************************************************************)
(* C3: iter_index(shape, order) yields exactly product(shape) indices,     *)
(* each within the bounds of shape, none twice, for 1-D, 2-D and 3-D       *)
(* shapes under "C", "F" and every explicit permutation; for a 1-D shape   *)
(* the indices are bare integers.                                          *)
(***************************************************************************)
C3_IterIndexVisitsEveryCellOnce ==
    pres.op = "iter_index" =>
        LET out == pres.indices
            sh == pure.shape
        IN  /\ Len(out) = NpProd(sh)
            /\ \A k \in 1..Len(out) :
                  /\ Len(out[k].ix) = Len(sh)
                  /\ \A d \in 1..Len(sh) : out[k].ix[d] >= 0 /\ out[k].ix[d] < sh[d]
                  /\ out[k].bare = (Len(sh) = 1)
            /\ \A k, l \in 1..Len(out) : out[k].ix = out[l].ix => k = l

C3_Witness ==
    /\ pres.op = "iter_index"
    /\ pure.shape = <<2, 3, 2>>
    /\ pure.order = OrderP(<<1, 2, 0>>)
    /\ Len(pres.indices) = 12
    /\ pres.indices[2] = Tup(<<1, 0, 0>>)

(***************************************************************************)
(* C4: get_strides gives the dimension listed last in order the stride     *)
(* itemsize and every other dimension itemsize times the product of the    *)
(* extents of the dimensions that follow it in order; shape (2,3) with     *)
(* itemsize 8 gives (24, 8) in row-major order, and in column-major order  *)
(* the first dimension has stride itemsize.                                *)
(***************************************************************************)
C4_StridesFollowOrder ==
    pres.op = "get_strides" =>
        LET sh == pure.shape
            n == Len(sh)
            order == mk_order(pure.order, sh)
            st == pres.strides
        IN  /\ Len(st) = n
            /\ At(st, order[n]) = pure.itemsize
            /\ \A k \in 1..(n - 1) :
                  At(st, order[k]) = At(st, order[k + 1]) * At(sh, order[k + 1])
            /\ (sh = <<2, 3>> /\ pure.itemsize = 8 /\ pure.order = OrderC) => st = <<24, 8>>
            /\ pure.order = OrderF => st[1] = pure.itemsize

C4_Witness ==
    /\ pres.op = "get_strides"
    /\ pure.shape = <<2, 3>>
    /\ pure.itemsize = 8
    /\ pure.order = OrderC
    /\ pres.strides = <<24, 8>>

(***************************************************************************)
(* C1: round trip.  For every layout case and every value of a valid       *)
(* shape, encoding the value with _to_buffer at an offset, attaching with  *)
(* _from_buffer at the same offset and reading every index with get        *)
(* succeeds and returns v[index] for every index.                          *)
(***************************************************************************)
C1_RoundTrip ==
    /\ pc # "attach_error"
    /\ pc = "attached" =>
          \A t \in Cells(info.shape) :
              __getitem__(cls, inst, buffer, t) = [err |-> "", val |-> shadow.cells[t]]

(***************************************************************************)
(* C2: after any sequence of set(index, value) calls on a bound instance,  *)
(* each with an in-bounds index and a value of the slot's encoded size,    *)
(* get(i) returns the value most recently set at i, or the value the       *)
(* instance was constructed with when i was never set, and the header      *)
(* bytes (size, extents, strides, offsets table) are unchanged.            *)
(***************************************************************************)
C2_GetReturnsLastSet ==
    (pc \in {"bound", "attached"} /\ shadow.inbounds) =>
        /\ \A t \in Cells(info.shape) :
              __getitem__(cls, inst, buffer, t) = [err |-> "", val |-> shadow.cells[t]]
        /\ ReadBytes(buffer, base, Len(shadow.header)) = shadow.header

C2_Witness ==
    /\ pc = "bound"
    /\ nsets = 2
    /\ shadow.inbounds
    /\ ~cls.is_static_type
    /\ info.shape = <<2, 2>>
    /\ res.op = "set" /\ res.err = "" /\ res.index = <<1, 0>>
    /\ shadow.cells[<<0, 1>>] = VarElem(14, 201)
    /\ shadow.cells[<<1, 0>>] = VarElem(10, 202)
    /\ shadow.cells[<<0, 0>>] = Cell(None, info.value, <<0, 0>>)

(***************************************************************************)
(* C5: for every specialized type, _data_offset is 8 unless the type is    *)
(* (static shape, fixed-size element), plus 8 per dynamic dimension, plus  *)
(* 8 per dimension when the shape is dynamic and has more than one         *)
(* dimension; the header _to_buffer writes (total size, dynamic extents,   *)
(* strides, each group under exactly those conditions) and the header      *)
(* space _inspect_args reserves both take _data_offset bytes, so the       *)
(* offsets table or the first element payload begins at base+_data_offset. *)
(***************************************************************************)
C5_HeaderTakesDataOffset ==
    LET rank == Len(cls.shape)
        ndyn == Cardinality({d \in 1..rank : cls.shape[d] = None})
        has_size == ~(ndyn = 0 /\ cls.itemsize # None)
        has_strides == ndyn > 0 /\ rank > 1
    IN  /\ cls.data_offset = (IF has_size THEN 8 ELSE 0) + 8 * ndyn
                             + (IF has_strides THEN 8 * rank ELSE 0)
        /\ info.err = "" => info.hdr = cls.data_offset
        /\ enc.err \in {"", "TypeError"} =>
              /\ 8 * Len(enc.header) = cls.data_offset
              /\ Len(enc.header) = (IF has_size THEN 1 ELSE 0) + ndyn
                                   + (IF has_strides THEN rank ELSE 0)
              /\ has_size => enc.header[1] = info.size
              /\ has_strides => SubSeq(enc.header, 2 + ndyn, 1 + ndyn + rank) = info.strides
              /\ ReadBytes(buffer, base, cls.data_offset) = FlattenWords(enc.header)
              /\ ~cls.is_static_type => enc.table_at = base + cls.data_offset
              /\ cls.is_static_type =>
                    \A t \in enc.written : ItemAt(base, info, t) >= base + cls.data_offset
              /\ (cls.is_static_type /\ enc.written # {}) =>
                    \E t \in enc.written : ItemAt(base, info, t) = base + cls.data_offset

C5_Witness ==
    /\ pc = "bound"
    /\ cls.shape = <<None, 3>>
    /\ cls.itemsize = 4
    /\ cls.data_offset = 32
    /\ info.hdr = 32
    /\ enc.header = <<56, 2, 12, 4>>

(***************************************************************************)
(* C6: for every specialized type and every in-bounds index, the text      *)
(* emitted by _get_c_offset is C that, run on a buffer encoded by          *)
(* _to_buffer with offset holding the instance base, computes the absolute *)
(* byte offset the accessor get uses for that index.                       *)
(***************************************************************************)
C6_EmittedOffsetIsAccessorOffset ==
    res.op = "c_offset" =>
        /\ res.err = ""
        /\ res.at = ItemAddress(cls, InstOfInfo(cls, base, info), res.index).at

(***************************************************************************)
(* C7: get(index) and set(index, value) fail with IndexError, touching no  *)
(* element bytes, whenever a component of index is negative or >= the      *)
(* resolved extent, and are accepted for every other index, both for       *)
(* instances addressed through strides and through an offsets table.       *)
(***************************************************************************)
C7_OutOfRangeIsRejected ==
    res.op \in {"get", "set"} =>
        (res.err = "IndexError") = ~InBounds(res.index, info.shape)

(***************************************************************************)
(* C8: planning fails, before any buffer is allocated or written, with a   *)
(* shape mismatch when the value's shape conflicts with a declared static  *)
(* extent, with too-many-arguments when a value and explicit extents are   *)
(* both supplied, and with invalid-dimension when a dynamic-dimension      *)
(* argument is negative (all three are ValueError in array.py).            *)
(***************************************************************************)
C8_PlannerRejectsBadArguments ==
    LET conflict == /\ Len(args) >= 1 /\ ~args[1].isint
                    /\ \E d \in 1..Len(cls.shape) :
                          cls.shape[d] # None /\ args[1].shape[d] # cls.shape[d]
        toomany == Len(args) > 1 /\ ~args[1].isint
        negative == /\ Len(args) >= Len(cls.dshape_idx) /\ Len(cls.dshape_idx) > 0
                    /\ \A k \in 1..Len(args) : args[k].isint
                    /\ \E k \in 1..Len(cls.dshape_idx) : args[k].n < 0
    IN  (pc # "new" /\ (conflict \/ toomany \/ negative)) =>
            (info.err = "ValueError" /\ buffer = <<>>)

(***************************************************************************)
(* C9: for a variable-sized element type the plan has one offsets entry    *)
(* per index; in traversal order the first entry is the first byte after   *)
(* the header and the offsets table, each later entry is the previous      *)
(* entry plus the previous element's inspected size, element regions do    *)
(* not overlap, each element's plan is recorded under its index, and the   *)
(* total is header + table + the element sizes, rounded up to 8; shape     *)
(* (2,) with sizes 10 and 14 gives offsets [24, 34] and total 48.          *)
(***************************************************************************)
C9_VariablePlanIsContiguous ==
    (info.err = "" /\ ~cls.is_static_type) =>
        LET idxs == iter_index(info.shape, mk_order(cls.order, info.shape))
            n == Len(idxs)
            items == Cardinality(Cells(info.shape))
            sz(t) == Len(Cell(None, info.value, t))
            first == cls.data_offset + 8 * items
            last == IF n = 0 THEN first ELSE info.offsets[idxs[n].ix] + sz(idxs[n].ix)
        IN  /\ n = items
            /\ DOMAIN info.offsets = Cells(info.shape)
            /\ DOMAIN info.extra = Cells(info.shape)
            /\ n > 0 => info.offsets[idxs[1].ix] = first
            /\ \A k \in 1..(n - 1) :
                  info.offsets[idxs[k + 1].ix] = info.offsets[idxs[k].ix] + sz(idxs[k].ix)
            /\ \A t \in Cells(info.shape) : info.extra[t] = sz(t)
            /\ \A t, u \in Cells(info.shape) :
                  t # u => \/ info.offsets[t] + sz(t) <= info.offsets[u]
                           \/ info.offsets[u] + sz(u) <= info.offsets[t]
            /\ info.size % 8 = 0 /\ info.size >= last /\ info.size < last + 8
            /\ (cls.shape = <<2>> /\ info.value.pat = 0) =>
                  /\ info.offsets = (<<0>> :> 24 @@ <<1>> :> 34)
                  /\ info.size = 24 + 24

C9_Witness ==
    /\ info.err = ""
    /\ ~cls.is_static_type
    /\ cls.shape = <<2>>
    /\ info.extra = (<<0>> :> 10 @@ <<1>> :> 14)
    /\ info.offsets = (<<0>> :> 24 @@ <<1>> :> 34)
    /\ info.size = 48

(***************************************************************************)
(* C10: for a fixed-size element type, static or dynamic shape, every      *)
(* order: the offset the planner records for an index, at which _to_buffer *)
(* writes the element, is _data_offset + get_offset(index, strides), the   *)
(* address get reads; so an instance built by construction returns         *)
(* v[index] from get(index), and the last element ends within the planned  *)
(* total size.                                                             *)
(***************************************************************************)
C10_PlannedOffsetsAreAccessorAddresses ==
    (cls.is_static_type /\ info.err = "") =>
        /\ \A t \in Cells(info.shape) :
              /\ info.offsets[t] = cls.data_offset + get_offset(t, info.strides)
              /\ info.offsets[t] + cls.itemsize <= info.size
        /\ pc # "encode_error"
        /\ pc = "bound" =>
              \A t \in Cells(info.shape) :
                  /\ t \in enc.written
                  /\ __getitem__(cls, inst, buffer, t) = [err |-> "", val |-> shadow.cells[t]]

====
